---- MODULE Spec2Model ----
(***************************************************************************)
(* PyPII: pattern loading (pypii/detector/patterns.py), the line-oriented  *)
(* detection engine and file detection (pypii/detector/pii_detector.py),   *)
(* text extraction (utils/file_handler.py), the scanner's admission check  *)
(* (pypii/scanner/file_scanner.py), the scan loop (pypii/cli.py), the     *)
(* report aggregator (pypii/report/generator.py), the S3 text parser       *)
(* (scan/parsers/s3/lambda_handlers) and the logger setup                  *)
(* (utils/logger.py).                                                      *)
(*                                                                         *)
(* Python values are modelled as follows.  A scanned text, a line and a    *)
(* matched substring are sequences of one-character strings; names, keys   *)
(* and expressions are strings; a dict read from JSON is a function whose  *)
(* DOMAIN is its key set; an Optional is a sequence of length 0 (None) or  *)
(* 1; the outcome of a call is [exc, value] where exc names the exception  *)
(* that left the call, "none" when it returned.                            *)
(***************************************************************************)
EXTENDS Integers, Sequences, FiniteSets, TLC

\* Bounds of the explored inputs.
MaxLen == 4         \* characters in a scanned text
MaxWindow == 1      \* context_chars ranges over 0..MaxWindow
MaxGroups == 2      \* risk-level groups in a pattern file
MaxRecs == 2        \* pattern records in a pattern file, all groups together
MaxIngest == 2      \* add_results calls on one ReportGenerator
MaxBatch == 1       \* findings in one add_results batch
MaxPages == 2       \* pages in a PDF file
MaxFiles == 2       \* files under a scanned directory
MaxSetups == 3      \* setup_logger calls in one process

VARIABLES
    source,             \* the pattern file the session is given
    pc,                 \* the last call made: "start" (none), "loaded", "load_failed", "ready",
                        \* "init_failed", "detected", "report", "summarized", "typed",
                        \* "extracted", "admission", "scanned", "scan_failed", "ingested",
                        \* "saved", "enumerated", "enum_failed", "scan_done", "listed",
                        \* "s3_extracted", "logger_set", "logger_failed"
    exc,                \* exception that left the last call, "none" if it returned
    loaded,             \* list returned by a direct PatternLoader.load_patterns call
    patterns,           \* PIIDetector.patterns of the detector the caller holds
    compiled_patterns,  \* PIIDetector.compiled_patterns
    text,               \* argument of the last detect call
    context_chars,      \* argument of the last detect call
    results,            \* list returned by the last detect call
    gen_results,        \* ReportGenerator.results
    scanned_files,      \* ReportGenerator.scanned_files
    summary,            \* Optional: the ScanSummary of the last generate_summary call
    calls,              \* history: the <<batch, file_path>> arguments of the add_results calls
    file,               \* the file a FileHandler, FileScanner or detect_file call is given
    ret,                \* outcome [exc, value] of the last of these calls
    written,            \* Optional: the rows save_csv handed to the CSV writer, None when
                        \* no CSV was saved since the last add_results call
    scanner,            \* the FileScanner a direct caller holds: the supported_types it was
                        \* constructed with (Optional) and its supported_types field
    target,             \* the path scan_files or scan_directory is given: what it is and
                        \* the files under it
    scan_list,          \* scan_files' list `files` of the files to scan
    done,               \* number of files the loop of scan_files has finished
    touched,            \* history: the files scan_files has enumerated or opened so far
    event,              \* the Lambda event an S3 TextParser.extract_text call is given
    s3_object,          \* what the S3 client finds under the event's bucket and key
    loggers,            \* logging's registry: logger name -> its level and handlers
    setups              \* history: the arguments of the setup_logger calls

vars == <<source, pc, exc, loaded, patterns, compiled_patterns, text,
          context_chars, results, gen_results, scanned_files, summary, calls,
          file, ret, written, scanner, target, scan_list, done, touched, event,
          s3_object,
          loggers, setups>>

\* The variables of the scan driver, of the S3 parser and of the logger setup.
cliVars == <<scanner, target, scan_list, done, touched>>
s3Vars == <<event, s3_object>>
logVars == <<loggers, setups>>

---------------------------------------------------------------------------
\* Generic helpers.

Min(a, b) == IF a < b THEN a ELSE b
Max(a, b) == IF a > b THEN a ELSE b

\* s[a:b] of a Python sequence, for 0 <= a and 0 <= b.
Slice(s, a, b) == SubSeq(s, a + 1, Min(b, Len(s)))

SeqsUpTo(S, n) == UNION {[1..k -> S] : k \in 0..n}

RECURSIVE SumSeq(_)
SumSeq(s) == IF s = <<>> THEN 0 ELSE Head(s) + SumSeq(Tail(s))

None == <<>>
Some(x) == <<x>>

Return(v) == [exc |-> "none", value |-> v]
Raise(e) == [exc |-> e, value |-> None]

---------------------------------------------------------------------------
\* The regular expressions of the pattern files, as the re module treats them.

Chr(c) == [t |-> "chr", c |-> c]
Cat(l, r) == [t |-> "cat", l |-> l, r |-> r]
Opt(x) == [t |-> "opt", x |-> x]
Star(x) == [t |-> "star", x |-> x]
ReError == [t |-> "error"]

\* The pattern strings used in the explored pattern files.
Exprs == {"a", "b", "aa", "ab?", "a*", "("}

\* re.compile: the parsed expression, or ReError where re.compile raises re.error.
ReCompile(p) ==
    CASE p = "a" -> Chr("a")
      [] p = "b" -> Chr("b")
      [] p = "aa" -> Cat(Chr("a"), Chr("a"))
      [] p = "ab?" -> Cat(Chr("a"), Opt(Chr("b")))
      [] p = "a*" -> Star(Chr("a"))
      [] OTHER -> ReError

\* The end offsets at which re matches s from offset i, in the order the
\* backtracking matcher tries them (greedy quantifiers first).
RECURSIVE Ends(_, _, _), EndsFrom(_, _, _), StarFrom(_, _, _, _)
Ends(re, s, i) ==
    CASE re.t = "chr" -> IF i < Len(s) /\ s[i + 1] = re.c THEN <<i + 1>> ELSE <<>>
      [] re.t = "cat" -> EndsFrom(re.r, s, Ends(re.l, s, i))
      [] re.t = "opt" -> Ends(re.x, s, i) \o <<i>>
      [] re.t = "star" -> StarFrom(re, s, i, Ends(re.x, s, i)) \o <<i>>

EndsFrom(re, s, starts) ==
    IF starts = <<>> THEN <<>>
    ELSE Ends(re, s, Head(starts)) \o EndsFrom(re, s, Tail(starts))

StarFrom(re, s, i, ends) ==
    IF ends = <<>> THEN <<>>
    ELSE (IF Head(ends) > i THEN Ends(re, s, Head(ends)) ELSE <<>>)
         \o StarFrom(re, s, i, Tail(ends))

\* One match attempt at offset i: the end of the match, -1 if none.  With
\* must_advance an empty match is rejected and the matcher backtracks.
RECURSIVE FirstEnd(_, _, _)
FirstEnd(ends, i, must_advance) ==
    IF ends = <<>> THEN -1
    ELSE IF must_advance /\ Head(ends) = i THEN FirstEnd(Tail(ends), i, must_advance)
    ELSE Head(ends)

MatchAt(re, s, i, must_advance) == FirstEnd(Ends(re, s, i), i, must_advance)

\* Pattern.finditer: the spans <<start, end>> of the matches of re in s, scanned
\* left to right from pos; must_advance holds after an empty match.
RECURSIVE Scan(_, _, _, _, _)
Scan(re, s, pos, i, must_advance) ==
    IF i > Len(s) THEN <<>>
    ELSE LET e == MatchAt(re, s, i, must_advance /\ i = pos) IN
         IF e = -1 THEN Scan(re, s, pos, i + 1, must_advance)
         ELSE <<<<i, e>>>> \o Scan(re, s, e, e, e = i)

FindIter(re, s) == Scan(re, s, 0, 0, FALSE)

---------------------------------------------------------------------------
\* str.splitlines.

LineBreaks == {"\n", "\r", "\f"}

RECURSIVE SplitFrom(_, _)
\* cur is the line being collected, s the rest of the text.
SplitFrom(cur, s) ==
    IF s = <<>> THEN (IF cur = <<>> THEN <<>> ELSE <<cur>>)
    ELSE IF Head(s) = "\r" /\ Len(s) >= 2 /\ s[2] = "\n"
         THEN <<cur>> \o SplitFrom(<<>>, Tail(Tail(s)))
    ELSE IF Head(s) \in LineBreaks THEN <<cur>> \o SplitFrom(<<>>, Tail(s))
    ELSE SplitFrom(Append(cur, Head(s)), Tail(s))

SplitLines(s) == SplitFrom(<<>>, s)

---------------------------------------------------------------------------
\* Pattern files and PatternLoader.load_patterns.

RiskLevel == {"HIGH", "MEDIUM", "LOW"}

PIIPattern(name, pattern, risk_level, description) ==
    [name |-> name, pattern |-> pattern, risk_level |-> risk_level,
     description |-> description]

\* dict.get(key, default) on a JSON object.
Get(p, key, default) == IF key \in DOMAIN p THEN p[key] ELSE default

\* The body of "for p in pattern_list": each record becomes a PIIPattern appended
\* to patterns; a missing key or an unknown RiskLevel name raises KeyError.
RECURSIVE LoadList(_, _, _)
LoadList(risk_level, pattern_list, acc) ==
    IF pattern_list = <<>> THEN Return(acc)
    ELSE LET p == Head(pattern_list) IN
         IF "name" \notin DOMAIN p THEN Raise("KeyError")
         ELSE IF "pattern" \notin DOMAIN p THEN Raise("KeyError")
         ELSE IF risk_level \notin RiskLevel THEN Raise("KeyError")
         ELSE LoadList(risk_level, Tail(pattern_list),
                  Append(acc, PIIPattern(p["name"], p["pattern"], risk_level,
                                         Get(p, "description", ""))))

\* LoadGroups taking the groups in the order HIGH, MEDIUM, LOW instead of the
\* order of the file.
LoadGroups_ByRisk(groups, acc) ==
    LET pick(key) == SelectSeq(groups, LAMBDA g : g.key = key)
        rest == SelectSeq(groups, LAMBDA g : g.key \notin {"HIGH", "MEDIUM", "LOW"})
        ordered == pick("HIGH") \o pick("MEDIUM") \o pick("LOW") \o rest
        RECURSIVE go(_, _)
        go(gs, a) ==
            IF gs = <<>> THEN Return(a)
            ELSE LET r == LoadList(Head(gs).key, Head(gs).list, a) IN
                 IF r.exc # "none" THEN r ELSE go(Tail(gs), r.value)
    IN  go(ordered, acc)

\* "for risk_level, pattern_list in data['patterns'].items()".
RECURSIVE LoadGroups(_, _)
LoadGroups(groups, acc) ==
    IF groups = <<>> THEN Return(acc)
    ELSE LET r == LoadList(Head(groups).key, Head(groups).list, acc) IN
         IF r.exc # "none" THEN r ELSE LoadGroups(Tail(groups), r.value)

\* load_patterns returning an empty list for a file that is not JSON.
load_patterns_Lenient(src) ==
    CASE src.kind = "missing" -> Raise("FileNotFoundError")
      [] src.kind = "unreadable" -> Raise("OSError")
      [] src.kind = "malformed" -> Return(<<>>)
      [] src.kind = "nonobject" -> Raise("TypeError")
      [] src.kind = "nogroup" -> Raise("KeyError")
      [] OTHER -> LoadGroups(src.groups, <<>>)

\* PatternLoader.load_patterns(pattern_file).  src.kind tells what the path
\* holds: "missing" (no such path), "unreadable" (exists, open fails),
\* "malformed" (not JSON), "nonobject" (JSON, not an object), "nogroup" (an
\* object without the key 'patterns'), "doc" (an object with 'patterns').
load_patterns(src) ==
    CASE src.kind = "missing" -> Raise("FileNotFoundError")
      [] src.kind = "unreadable" -> Raise("OSError")
      [] src.kind = "malformed" -> Raise("JSONDecodeError")
      [] src.kind = "nonobject" -> Raise("TypeError")
      [] src.kind = "nogroup" -> Raise("KeyError")
      [] OTHER -> LoadGroups(src.groups, <<>>)

---------------------------------------------------------------------------
\* PIIDetector.

\* dict[key] = value.
DictSet(d, key, value) ==
    [k \in DOMAIN d \cup {key} |-> IF k = key THEN value ELSE d[k]]

EmptyDict == [k \in {} |-> None]

\* The dict comprehension {pattern.name: re.compile(pattern.pattern) ...}: a
\* later pattern of the same name replaces the earlier entry; re.error leaves
\* the comprehension at the first expression that does not compile.
RECURSIVE CompileAll_SkipBad(_, _)
\* CompileAll leaving out the patterns whose expression does not compile.
CompileAll_SkipBad(ps, d) ==
    IF ps = <<>> THEN Return(d)
    ELSE LET c == ReCompile(Head(ps).pattern) IN
         CompileAll_SkipBad(Tail(ps), IF c = ReError THEN d ELSE DictSet(d, Head(ps).name, c))

RECURSIVE CompileAll(_, _)
CompileAll(ps, d) ==
    IF ps = <<>> THEN Return(d)
    ELSE LET c == ReCompile(Head(ps).pattern) IN
         IF c = ReError THEN Raise("re.error")
         ELSE CompileAll(Tail(ps), DictSet(d, Head(ps).name, c))

\* DetectionResult(pattern_name, matched_text, start_pos, end_pos, risk_level,
\* line_number, context), file_path left at its default None.
DetectionResult(name, matched, start, end, risk, line_num, context) ==
    [pattern_name |-> name, matched_text |-> matched, start_pos |-> start,
     end_pos |-> end, risk_level |-> risk, line_number |-> line_num,
     context |-> context, file_path |-> None]

\* The loop over the matches with the context cut off at the end of the match.
RECURSIVE ForMatches_NoRightContext(_, _, _, _, _)
ForMatches_NoRightContext(matches, pattern, line, line_num, w) ==
    IF matches = <<>> THEN <<>>
    ELSE LET start == Head(matches)[1]
             end == Head(matches)[2]
             context_start == Max(0, start - w)
         IN  <<DetectionResult(pattern.name, Slice(line, start, end), start, end,
                               pattern.risk_level, line_num,
                               Slice(line, context_start, end))>>
             \o ForMatches_NoRightContext(Tail(matches), pattern, line, line_num, w)

\* "for match in matches": one DetectionResult per span, in the order finditer
\* yields them.
RECURSIVE ForMatches(_, _, _, _, _)
ForMatches(matches, pattern, line, line_num, w) ==
    IF matches = <<>> THEN <<>>
    ELSE LET start == Head(matches)[1]
             end == Head(matches)[2]
             context_start == Max(0, start - w)
             context_end == Min(Len(line), end + w)
         IN  <<DetectionResult(pattern.name, Slice(line, start, end), start, end,
                               pattern.risk_level, line_num,
                               Slice(line, context_start, context_end))>>
             \o ForMatches(Tail(matches), pattern, line, line_num, w)

\* "for pattern in self.patterns" on one line, from pattern index k on.
RECURSIVE ForPatterns(_, _, _, _, _, _)
ForPatterns(ps, compiled, k, line, line_num, w) ==
    IF k > Len(ps) THEN <<>>
    ELSE ForMatches(FindIter(compiled[ps[k].name], line), ps[k], line, line_num, w)
         \o ForPatterns(ps, compiled, k + 1, line, line_num, w)

\* "for line_num, line in enumerate(lines, 1)", from line index n on.
RECURSIVE ForLines(_, _, _, _, _)
ForLines(ps, compiled, lines, n, w) ==
    IF n > Len(lines) THEN <<>>
    ELSE ForPatterns(ps, compiled, 1, lines[n], n, w)
         \o ForLines(ps, compiled, lines, n + 1, w)

\* detect with the loops nested the other way round: patterns outside, lines inside.
RECURSIVE LinesOfPattern(_, _, _, _, _), detect_PatternsOutside(_, _, _, _)
LinesOfPattern(pattern, re, lines, n, w) ==
    IF n > Len(lines) THEN <<>>
    ELSE ForMatches(FindIter(re, lines[n]), pattern, lines[n], n, w)
         \o LinesOfPattern(pattern, re, lines, n + 1, w)

detect_PatternsOutside(ps, compiled, t, w) ==
    IF ps = <<>> THEN <<>>
    ELSE LinesOfPattern(Head(ps), compiled[Head(ps).name], SplitLines(t), 1, w)
         \o detect_PatternsOutside(Tail(ps), compiled, t, w)

\* PIIDetector.detect(text, context_chars).
detect(ps, compiled, t, w) == ForLines(ps, compiled, SplitLines(t), 1, w)

\* A constructor that gives a detector without patterns when loading or
\* compiling fails.
PIIDetector_init_Lenient(src) ==
    LET r == load_patterns(src)
        c == IF r.exc = "none" THEN CompileAll(r.value, EmptyDict) ELSE r
    IN  IF c.exc # "none" THEN Return([patterns |-> <<>>, compiled_patterns |-> EmptyDict])
        ELSE Return([patterns |-> r.value, compiled_patterns |-> c.value])

\* PIIDetector.__init__(pattern_file): the detector's two fields, or the
\* exception that leaves the constructor (no detector is then obtained).
PIIDetector_init(src) ==
    LET r == load_patterns(src) IN
    IF r.exc # "none" THEN r
    ELSE LET c == CompileAll(r.value, EmptyDict) IN
         IF c.exc # "none" THEN c
         ELSE Return([patterns |-> r.value, compiled_patterns |-> c.value])

---------------------------------------------------------------------------
\* ReportGenerator.

\* bool(file_path): None is false, every Path is true.
Truthy(file_path) == file_path # None

\* add_results(results, file_path): the generator's two lists after the call.
add_results_Dedup(rs, files, batch, file_path) ==
    [results |-> rs \o SelectSeq(batch, LAMBDA f : \A k \in 1..Len(rs) : rs[k] # f),
     scanned_files |-> IF Truthy(file_path) THEN Append(files, file_path[1]) ELSE files]

\* add_results that files every finding of a batch under the risk level of the
\* batch's first finding.
add_results_Relevel(rs, files, batch, file_path) ==
    [results |-> rs \o [k \in 1..Len(batch) |->
                            [batch[k] EXCEPT !.risk_level = batch[1].risk_level]],
     scanned_files |-> IF Truthy(file_path) THEN Append(files, file_path[1]) ELSE files]

\* add_results that extends the result list and registers no source.
add_results_Unregistered(rs, files, batch, file_path) ==
    [results |-> rs \o batch, scanned_files |-> files]

add_results(rs, files, batch, file_path) ==
    [results |-> rs \o batch,
     scanned_files |-> IF Truthy(file_path) THEN Append(files, file_path[1]) ELSE files]

\* A count that records the presence of a key, not the number of its results.
RECURSIVE CountBy_Presence(_, _, _)
CountBy_Presence(rs, field, counts) ==
    IF rs = <<>> THEN counts
    ELSE CountBy_Presence(Tail(rs), field, DictSet(counts, Head(rs)[field], 1))

\* counts[key] = counts.get(key, 0) + 1 for the given field of every result.
RECURSIVE CountBy(_, _, _)
CountBy(rs, field, counts) ==
    IF rs = <<>> THEN counts
    ELSE CountBy(Tail(rs), field,
                 DictSet(counts, Head(rs)[field], Get(counts, Head(rs)[field], 0) + 1))

\* generate_summary(): the ScanSummary, scan_time (the clock) left out.
generate_summary(rs, files) ==
    [total_files |-> Len(files),
     total_detections |-> Len(rs),
     risk_level_counts |-> CountBy(rs, "risk_level", EmptyDict),
     pattern_counts |-> CountBy(rs, "pattern_name", EmptyDict)]

\* Path('unknown'), the key _group_by_file uses for a result without file_path.
UnknownPath == "unknown"

\* _group_by_file(): the dict from path to the list of its results.
RECURSIVE GroupFrom(_, _)
GroupFrom(rs, grouped) ==
    IF rs = <<>> THEN grouped
    ELSE LET result == Head(rs)
             file_path == IF Truthy(result.file_path) THEN result.file_path[1]
                          ELSE UnknownPath
             g == IF file_path \notin DOMAIN grouped THEN DictSet(grouped, file_path, <<>>)
                  ELSE grouped
         IN  GroupFrom(Tail(rs), DictSet(g, file_path, Append(g[file_path], result)))

group_by_file(rs) == GroupFrom(rs, EmptyDict)

---------------------------------------------------------------------------
\* Files, FileHandler (utils/file_handler.py), PIIDetector.detect_file and
\* FileScanner._is_supported_file.
\*
\* A file is its path, the MIME type libmagic sniffs from its bytes and its
\* content: "absent" (no such file), "unreadable" (no permission), "text"
\* (bytes that decode as UTF-8 to the given text), "binary" (bytes that do
\* not decode and that no document library parses), "pdf" (a document with
\* the given pages, each the Optional that page.extract_text() returns) or
\* "docx" (a document with the given paragraphs and tables).

File(path, mime, content) == [path |-> path, mime |-> mime, content |-> content]

Absent == [t |-> "absent"]
Unreadable == [t |-> "unreadable"]
Binary == [t |-> "binary"]
TextBytes(t) == [t |-> "text", text |-> t]
PdfDoc(pages) == [t |-> "pdf", pages |-> pages]
DocxDoc(paragraphs, tables) == [t |-> "docx", paragraphs |-> paragraphs, tables |-> tables]

DocxMime == "application/vnd.openxmlformats-officedocument.wordprocessingml.document"

\* Path(p).suffix for the explored paths.
suffix(path) ==
    CASE path \in {"a.txt", "b.txt"} -> ".txt"
      [] path = "a.docx" -> ".docx"
      [] path = "a.DOCX" -> ".DOCX"
      [] OTHER -> ""

\* str.lower() for the explored suffixes and MIME types (the MIME types
\* libmagic returns are lower case already).
Lower(str) == IF str = ".DOCX" THEN ".docx" ELSE str

\* "sub in mime" for the three substrings the dispatch tests and the explored
\* MIME types.
In(sub, mime) ==
    CASE sub = "text/plain" -> mime = "text/plain"
      [] sub = "pdf" -> mime = "application/pdf"
      [] sub = "officedocument.wordprocessingml.document" -> mime = DocxMime
      [] OTHER -> FALSE

\* magic.from_file(str(path), mime=True): it opens the file first.
magic_from_file(f) ==
    CASE f.content.t = "absent" -> Raise("FileNotFoundError")
      [] f.content.t = "unreadable" -> Raise("PermissionError")
      [] OTHER -> Return(f.mime)

\* The type classifier without the extension test.
get_file_type_MimeOnly(f) ==
    LET m == magic_from_file(f) IN
    IF m.exc # "none" THEN m
    ELSE LET mime_type == Lower(m.value) IN
         IF In("text/plain", mime_type) THEN Return("text")
         ELSE IF In("pdf", mime_type) THEN Return("PDF")
         ELSE IF In("officedocument.wordprocessingml.document", mime_type)
              THEN Return("docx")
         ELSE Return("unknown")

\* FileHandler.get_file_type(file_path): the FileType's value.
get_file_type(f) ==
    LET m == magic_from_file(f) IN
    IF m.exc # "none" THEN m
    ELSE LET mime_type == Lower(m.value) IN
         IF In("text/plain", mime_type) THEN Return("text")
         ELSE IF In("pdf", mime_type) THEN Return("PDF")
         ELSE IF \/ In("officedocument.wordprocessingml.document", mime_type)
                 \/ Lower(suffix(f.path)) = ".docx"
              THEN Return("docx")
         ELSE Return("unknown")

\* sep.join(parts).
RECURSIVE Join(_, _)
Join(sep, parts) ==
    IF parts = <<>> THEN <<>>
    ELSE IF Len(parts) = 1 THEN Head(parts)
    ELSE Head(parts) \o sep \o Join(sep, Tail(parts))

\* page.extract_text() or "".
PageText(page) == IF page = None THEN <<>> ELSE page[1]

\* The rows of all tables of a document, each row its cell texts joined by a blank.
RECURSIVE RowTexts(_)
RowTexts(tables) ==
    IF tables = <<>> THEN <<>>
    ELSE [r \in 1..Len(Head(tables)) |-> Join(<<" ">>, Head(tables)[r])]
         \o RowTexts(Tail(tables))

\* FileHandler._extract_from_text: file_path.read_text(encoding="utf-8").
extract_from_text(f) ==
    IF f.content.t = "text" THEN Return(f.content.text)
    ELSE Raise("UnicodeDecodeError")

\* FileHandler._extract_from_pdf: the page texts joined by a newline.
extract_from_pdf(f) ==
    IF f.content.t = "pdf"
    THEN Return(Join(<<"\n">>, [k \in 1..Len(f.content.pages) |-> PageText(f.content.pages[k])]))
    ELSE Raise("PDFSyntaxError")

\* FileHandler._extract_from_docx: paragraphs, then table rows, joined by a newline.
extract_from_docx(f) ==
    IF f.content.t = "docx"
    THEN Return(Join(<<"\n">>, f.content.paragraphs \o RowTexts(f.content.tables)))
    ELSE Raise("PackageNotFoundError")

\* FileHandler.extract_text(file_path): get_file_type is called before the
\* try block, the dispatch inside it; value is the Optional[str] returned.
extract_text(f) ==
    LET file_type == get_file_type(f) IN
    IF file_type.exc # "none" THEN file_type
    ELSE LET r == CASE file_type.value = "text" -> extract_from_text(f)
                    [] file_type.value = "PDF" -> extract_from_pdf(f)
                    [] file_type.value = "docx" -> extract_from_docx(f)
                    [] OTHER -> Raise("ValueError")
         IN  IF r.exc # "none" THEN Return(None) ELSE Return(Some(r.value))

\* The default of detect's context_chars.
DefaultContextChars == 50

\* The text detect_file reads inside its try block for a file sniffed as mime_type.
detect_file_text(f, mime_type) ==
    IF In("pdf", Lower(mime_type))
    THEN IF f.content.t = "pdf"
         THEN Return(Join(<<>>, [k \in 1..Len(f.content.pages) |-> PageText(f.content.pages[k])]))
         ELSE Raise("PDFSyntaxError")
    ELSE IF \/ In("officedocument.wordprocessingml.document", Lower(mime_type))
            \/ Lower(suffix(f.path)) = ".docx"
    THEN IF f.content.t = "docx"
         THEN Return(Join(<<"\n">>, f.content.paragraphs \o RowTexts(f.content.tables)))
         ELSE Raise("PackageNotFoundError")
    ELSE IF f.content.t = "text" THEN Return(f.content.text)
    ELSE Raise("UnicodeDecodeError")

\* "for result in results: result.file_path = file_path".
SetFilePath(rs, path) == [k \in 1..Len(rs) |-> [rs[k] EXCEPT !.file_path = Some(path)]]

\* PIIDetector.detect_file(file_path): magic.from_file is called before the
\* try block; every exception inside it turns into the empty list.
detect_file(ps, compiled, f) ==
    LET mime_type == magic_from_file(f) IN
    IF mime_type.exc # "none" THEN mime_type
    ELSE LET t == detect_file_text(f, mime_type.value) IN
         IF t.exc # "none" THEN Return(<<>>)
         ELSE Return(SetFilePath(detect(ps, compiled, t.value, DefaultContextChars), f.path))

\* FileScanner.supported_types, the default.
SupportedTypes ==
    {"text/plain", "application/pdf", DocxMime,
     "application/vnd.openxmlformats-officedocument.spreadsheetml.sheet",
     "application/msword"}

\* FileScanner._is_supported_file(file_path).
is_supported_file(f, supported_types) ==
    IF Lower(suffix(f.path)) = ".docx" THEN TRUE
    ELSE LET mime == magic_from_file(f) IN
         IF mime.exc # "none" THEN FALSE
         ELSE mime.value \in supported_types

\* FileScanner.__init__(supported_types): "supported_types or {...}", an
\* Optional set; None and the empty set are false.
FileScanner_init(supported_types) ==
    [configured |-> supported_types,
     supported_types |-> IF supported_types = None \/ supported_types[1] = {}
                         THEN SupportedTypes ELSE supported_types[1]]

\* A path: "missing" (nothing there), "file" (the one file files[1]) or "dir"
\* (a directory, files the files under it in the order rglob visits them).
Target(kind, fs) == [kind |-> kind, files |-> fs]

\* list(scanner.scan_directory(path)): rglob over a file visits nothing.
scan_directory(t, supported_types) ==
    IF t.kind = "missing" THEN Raise("FileNotFoundError")
    ELSE IF t.kind = "file" THEN Return(<<>>)
    ELSE Return(SelectSeq(t.files, LAMBDA f : is_supported_file(f, supported_types)))

\* The loop body of scan_files without its try block: an exception of
\* detect_file leaves the loop.
scan_file_NoCatch(ps, compiled, rs, files, f) ==
    LET r == detect_file(ps, compiled, f) IN
    IF r.exc # "none" THEN [exc |-> r.exc, results |-> rs, scanned_files |-> files]
    ELSE IF r.value # <<>>
    THEN [exc |-> "none"] @@ add_results(rs, files, r.value, Some(f.path))
    ELSE [exc |-> "none", results |-> rs, scanned_files |-> files]

\* The loop body of scan_files for one file: detect_file, add_results when
\* the result list is not empty, every exception caught and logged.  exc is
\* the exception that leaves the body, results and scanned_files the
\* generator's lists after it.
scan_file(ps, compiled, rs, files, f) ==
    LET r == detect_file(ps, compiled, f) IN
    IF r.exc # "none" THEN [exc |-> "none", results |-> rs, scanned_files |-> files]
    ELSE IF r.value # <<>>
    THEN [exc |-> "none"] @@ add_results(rs, files, r.value, Some(f.path))
    ELSE [exc |-> "none", results |-> rs, scanned_files |-> files]

\* The key _group_by_file files a result under.
KeyOf(result) ==
    IF Truthy(result.file_path) THEN result.file_path[1] ELSE UnknownPath

\* The keys of _group_by_file() in the order the dict holds them (first use).
RECURSIVE KeyOrder(_, _)
KeyOrder(rs, seen) ==
    IF rs = <<>> THEN seen
    ELSE KeyOrder(Tail(rs),
                  IF \E k \in 1..Len(seen) : seen[k] = KeyOf(Head(rs)) THEN seen
                  ELSE Append(seen, KeyOf(Head(rs))))

CsvHeader ==
    <<"File", "Pattern", "Matched Text", "Risk Level", "Line Number",
      "Start Position", "End Position", "Context">>

\* Data rows that hold the first result of every group only.
RECURSIVE CsvRows_OnePerGroup(_, _, _)
CsvRows_OnePerGroup(grouped, keys, k) ==
    IF k > Len(keys) THEN <<>>
    ELSE LET r == grouped[keys[k]][1] IN
         << <<keys[k], r.pattern_name, r.matched_text, r.risk_level, r.line_number,
              r.start_pos, r.end_pos, r.context>> >>
         \o CsvRows_OnePerGroup(grouped, keys, k + 1)

\* The data rows save_csv writes for the groups keys[k..], one row per result.
RECURSIVE CsvRows(_, _, _)
CsvRows(grouped, keys, k) ==
    IF k > Len(keys) THEN <<>>
    ELSE [i \in 1..Len(grouped[keys[k]]) |->
             LET r == grouped[keys[k]][i] IN
             <<keys[k], r.pattern_name, r.matched_text, r.risk_level, r.line_number,
               r.start_pos, r.end_pos, r.context>>]
         \o CsvRows(grouped, keys, k + 1)

\* ReportGenerator.save_csv(output_path): the rows written, header first.
save_csv(rs) == <<CsvHeader>> \o CsvRows(group_by_file(rs), KeyOrder(rs, <<>>), 1)

---------------------------------------------------------------------------
\* The explored inputs.

Alphabet == {"a", "b", "\n", "\r"}
Texts == SeqsUpTo(Alphabet, MaxLen)
Windows == 0..MaxWindow

Source(kind, groups) == [kind |-> kind, groups |-> groups]
Group(key, list) == [key |-> key, list |-> list]

\* Pattern records as they stand in a pattern file.
RecA == [name |-> "X", pattern |-> "a"]
RecB == [name |-> "Y", pattern |-> "b", description |-> "d"]
RecDup == [name |-> "X", pattern |-> "b"]
RecBadExpr == [name |-> "Z", pattern |-> "(", description |-> "d"]
RecNoName == [pattern |-> "a", description |-> "d"]
RecNoExpr == [name |-> "Y"]
RecordPool == {RecA, RecB, RecDup, RecBadExpr, RecNoName, RecNoExpr}

\* The group keys of the explored files: names of RiskLevel members and one
\* that names none.
GroupKeys == {"HIGH", "LOW", "CRITICAL"}

\* The 'patterns' object with the keys ks in this order, the records rs dealt
\* out to them in order: group g holds rs[cut[g-1]+1 .. cut[g]].
MkGroups(ks, rs, cut) ==
    [g \in 1..Len(ks) |->
        Group(ks[g], SubSeq(rs, (IF g = 1 THEN 0 ELSE cut[g - 1]) + 1, cut[g]))]

\* cut deals the records rs out to the groups ks: it rises to Len(rs), which it
\* reaches at the last group (and keeps for the group numbers ks does not use).
IsCut(ks, rs, cut) ==
    /\ \A g \in 1..(MaxGroups - 1) : cut[g] <= cut[g + 1]
    /\ \A g \in 1..MaxGroups : cut[g] <= Len(rs)
    /\ \A g \in 1..MaxGroups : g >= Len(ks) => cut[g] = Len(rs)
    /\ ks = <<>> => rs = <<>>

\* The 'patterns' objects with at most MaxGroups groups (keys distinct, as in
\* any JSON object once parsed) holding at most MaxRecs records together.
PatternObjects ==
    LET KeySeqs == {ks \in SeqsUpTo(GroupKeys, MaxGroups) :
                       \A g, h \in 1..Len(ks) : ks[g] = ks[h] => g = h}
        RecSeqs == SeqsUpTo(RecordPool, MaxRecs)
        AllCuts == [1..MaxGroups -> 0..MaxRecs]
    IN  { MkGroups(x[1], x[2], x[3]) :
              x \in {y \in KeySeqs \X RecSeqs \X AllCuts : IsCut(y[1], y[2], y[3])} }

\* The pattern files of the loading specification.
Sources ==
    {Source(k, <<>>) : k \in {"missing", "unreadable", "malformed", "nonobject", "nogroup"}}
    \cup {Source("doc", g) : g \in PatternObjects}

\* The pattern files of the detection specification.
DetectSources == {
    Source("doc", <<>>),
    Source("doc", <<Group("HIGH", <<[name |-> "X", pattern |-> "a"]>>),
                    Group("LOW", <<[name |-> "Y", pattern |-> "ab?"]>>)>>),
    Source("doc", <<Group("HIGH", <<[name |-> "X", pattern |-> "aa"]>>),
                    Group("MEDIUM", <<[name |-> "Y", pattern |-> "a*"]>>)>>),
    Source("doc", <<Group("LOW", <<[name |-> "Y", pattern |-> "b"]>>),
                    Group("HIGH", <<[name |-> "X", pattern |-> "a"],
                                    [name |-> "Z", pattern |-> "ab?"]>>)>>),
    Source("doc", <<Group("HIGH", <<[name |-> "X", pattern |-> "a"]>>),
                    Group("LOW", <<[name |-> "X", pattern |-> "b"]>>)>>),
    Source("doc", <<Group("MEDIUM", <<[name |-> "X", pattern |-> "a"],
                                      [name |-> "Z", pattern |-> "("]>>)>>) }

\* The paths of the scanned files; a file may be named 'unknown'.
Paths == {"a.txt", "unknown"}
FilePaths == {None} \cup {Some(f) : f \in Paths}

\* A DetectionResult as detect (file_path None) or detect_file (file_path the
\* scanned file) returns it.
Finding(name, risk, file_path) ==
    [pattern_name |-> name, matched_text |-> <<"a">>, start_pos |-> 0, end_pos |-> 1,
     risk_level |-> risk, line_number |-> 1, context |-> <<"a">>,
     file_path |-> file_path]

\* The result lists handed to add_results: the findings of one pattern in
\* one scan, all of one file_path.
Batches ==
    UNION { SeqsUpTo({Finding("X", "HIGH", fp)}, MaxBatch)
            \cup SeqsUpTo({Finding("Y", "LOW", fp)}, MaxBatch) : fp \in FilePaths }

\* The files of the scan specification.
ScanPaths == {"a.txt", "a.docx", "a.DOCX"}
FileTexts == {<<>>, <<"a">>, <<"a", "a">>, <<"a", "b", "\n", "a">>}
PageTexts == {None, Some(<<"a">>)}

DocxDocs ==
    {DocxDoc(<<<<"a">>>>, <<>>),
     DocxDoc(<<<<"a", "b">>, <<>>>>, << << <<<<"a">>, <<"b">>>>, <<<<"a">>>> >> >>)}

Contents ==
    {Absent, Unreadable, Binary}
    \cup {TextBytes(t) : t \in FileTexts}
    \cup {PdfDoc(pages) : pages \in SeqsUpTo(PageTexts, MaxPages)}
    \cup DocxDocs

\* The MIME types libmagic can sniff from a content: an empty file is
\* inode/x-empty, a text is text/plain or a more specific type, a binary can
\* carry the header of a PDF or of a ZIP container without being a document.
MimesOf(content) ==
    CASE content.t = "text" -> IF content.text = <<>> THEN {"inode/x-empty"}
                               ELSE {"text/plain", "application/json"}
      [] content.t = "binary" -> {"image/png", "application/zip", "application/pdf"}
      [] content.t = "pdf" -> {"application/pdf"}
      [] content.t = "docx" -> {DocxMime, "application/zip"}
      [] OTHER -> {"none"}

Files ==
    UNION { {File(path, mime, content) : path \in ScanPaths, mime \in MimesOf(content)}
            : content \in Contents }

\* The file of the specifications that scan no file.
NoFile == File("a.txt", "none", Absent)

\* The pattern files of the scan specification.
ScanSources == {
    Source("doc", <<Group("HIGH", <<[name |-> "X", pattern |-> "a"]>>),
                    Group("LOW", <<[name |-> "Y", pattern |-> "ab?"]>>)>>),
    Source("doc", <<Group("HIGH", <<[name |-> "X", pattern |-> "aa"]>>),
                    Group("MEDIUM", <<[name |-> "Y", pattern |-> "a*"]>>)>>) }

---------------------------------------------------------------------------
\* The state machine.

\* The parts of the state a specification does not use: no CSV written, no
\* scan_files call, no S3 event, no logger set up.
NoTarget == [kind |-> "missing", files |-> <<>>]
NoEvent == [shape |-> "none"]
NoObject == [t |-> "absent"]

NoCsv == written = None
NoScanFiles ==
    /\ scanner = [configured |-> None, supported_types |-> {}]
    /\ target = NoTarget /\ scan_list = <<>> /\ done = 0 /\ touched = {}
NoS3 == event = NoEvent /\ s3_object = NoObject
NoLogging == loggers = EmptyDict /\ setups = <<>>

InitWith(S) ==
    /\ source \in S
    /\ pc = "start"
    /\ exc = "none"
    /\ loaded = None
    /\ patterns = <<>>
    /\ compiled_patterns = EmptyDict
    /\ text = <<>>
    /\ context_chars = 0
    /\ results = <<>>
    /\ gen_results = <<>>
    /\ scanned_files = <<>>
    /\ summary = None
    /\ calls = <<>>
    /\ file = NoFile
    /\ ret = Return(None)
    /\ NoCsv /\ NoScanFiles /\ NoS3 /\ NoLogging

Init == InitWith(DetectSources)

\* patterns = PatternLoader.load_patterns(pattern_file), called directly.
LoadPatterns ==
    /\ pc = "start"
    /\ LET r == load_patterns(source) IN
       /\ exc' = r.exc
       /\ pc' = IF r.exc = "none" THEN "loaded" ELSE "load_failed"
       /\ loaded' = IF r.exc = "none" THEN Some(r.value) ELSE None
    /\ UNCHANGED <<source, patterns, compiled_patterns, text, context_chars,
                   results, gen_results, scanned_files, summary, calls, file, ret,
                   written, cliVars, s3Vars, logVars>>

\* detector = PIIDetector(pattern_file).
NewDetector ==
    /\ pc = "start"
    /\ LET r == PIIDetector_init(source) IN
       /\ exc' = r.exc
       /\ pc' = IF r.exc = "none" THEN "ready" ELSE "init_failed"
       /\ patterns' = IF r.exc = "none" THEN r.value.patterns ELSE patterns
       /\ compiled_patterns' =
              IF r.exc = "none" THEN r.value.compiled_patterns ELSE compiled_patterns
    /\ UNCHANGED <<source, loaded, text, context_chars, results, gen_results,
                   scanned_files, summary, calls, file, ret,
                   written, cliVars, s3Vars, logVars>>

\* results = detector.detect(t, w).  detect reads the detector's two fields and
\* writes none, so a later call behaves as the first one does.
Detect(t, w) ==
    /\ pc = "ready"
    /\ pc' = "detected"
    /\ text' = t
    /\ context_chars' = w
    /\ results' = detect(patterns, compiled_patterns, t, w)
    /\ UNCHANGED <<source, exc, loaded, patterns, compiled_patterns, gen_results,
                   scanned_files, summary, calls, file, ret,
                   written, cliVars, s3Vars, logVars>>

Next ==
    \/ NewDetector
    \/ \E t \in Texts, w \in Windows : Detect(t, w)

Spec == Init /\ [][Next]_vars

\* The loading specification: one pattern file, loaded directly or through
\* the detector's constructor.
InitLoad == InitWith(Sources)

NextLoad ==
    \/ LoadPatterns
    \/ NewDetector

SpecLoad == InitLoad /\ [][NextLoad]_vars

---------------------------------------------------------------------------
\* Properties of the detection engine (specification Spec).

\* s is in the language of re, by the structure of re alone (no scan order).
RECURSIVE InLang(_, _)
InLang(re, s) ==
    CASE re.t = "chr" -> s = <<re.c>>
      [] re.t = "cat" -> \E k \in 0..Len(s) :
                             InLang(re.l, SubSeq(s, 1, k)) /\ InLang(re.r, SubSeq(s, k + 1, Len(s)))
      [] re.t = "opt" -> s = <<>> \/ InLang(re.x, s)
      [] re.t = "star" -> s = <<>> \/ \E k \in 1..Len(s) :
                             InLang(re.x, SubSeq(s, 1, k)) /\ InLang(re, SubSeq(s, k + 1, Len(s)))
      [] OTHER -> FALSE

\* The declared positions of the patterns a finding can come from: those that
\* carry the finding's name and risk level.
PositionsOf(f) ==
    {p \in 1..Len(patterns) :
        patterns[p].name = f.pattern_name /\ patterns[p].risk_level = f.risk_level}

\* f is not after g in the order (line_number, declared position, start_pos).
TripleLeq(f, g) ==
    \/ f.line_number < g.line_number
    \/ /\ f.line_number = g.line_number
       /\ \E p \in PositionsOf(f), q \in PositionsOf(g) :
              p < q \/ (p = q /\ f.start_pos <= g.start_pos)

\* C1: the list detect returns is sorted ascending by (line number, position of
\* the finding's pattern in the declared order, start offset).
C1_DetectSorted ==
    pc = "detected" =>
        \A i, j \in 1..Len(results) : i < j => TripleLeq(results[i], results[j])

\* C1's case: one detect call reported findings on two lines, of two patterns
\* on one line, and two matches of one pattern on one line.
C1_Witness ==
    /\ pc = "detected"
    /\ \E i, j \in 1..Len(results) : results[i].line_number < results[j].line_number
    /\ \E i, j \in 1..Len(results) :
           /\ results[i].line_number = results[j].line_number
           /\ results[i].pattern_name # results[j].pattern_name
    /\ \E i, j \in 1..Len(results) :
           /\ results[i].line_number = results[j].line_number
           /\ results[i].pattern_name = results[j].pattern_name
           /\ results[i].start_pos < results[j].start_pos

\* The findings of line n that carry the name of pattern p, as spans, in order.
RECURSIVE SpansOf(_, _, _)
SpansOf(rs, n, name) ==
    IF rs = <<>> THEN <<>>
    ELSE (IF Head(rs).line_number = n /\ Head(rs).pattern_name = name
          THEN <<<<Head(rs).start_pos, Head(rs).end_pos>>>> ELSE <<>>)
         \o SpansOf(Tail(rs), n, name)

\* C2: every finding is the substring [start_pos, end_pos) of its line and that
\* substring matches the expression of the pattern it names; and for every line
\* and every pattern the findings are exactly the matches of that pattern's
\* expression in that line, one finding per match (none when it matches nowhere).
C2_DetectSoundComplete ==
    pc = "detected" =>
        LET lines == SplitLines(text) IN
        /\ \A k \in 1..Len(results) :
               LET f == results[k] IN
               /\ f.line_number \in 1..Len(lines)
               /\ f.matched_text = Slice(lines[f.line_number], f.start_pos, f.end_pos)
               /\ \E p \in 1..Len(patterns) :
                      /\ patterns[p].name = f.pattern_name
                      /\ InLang(ReCompile(patterns[p].pattern), f.matched_text)
        /\ \A n \in 1..Len(lines), p \in 1..Len(patterns) :
               SpansOf(results, n, patterns[p].name)
                   = FindIter(ReCompile(patterns[p].pattern), lines[n])

\* C10: in the pattern set of a constructed detector the names are pairwise
\* distinct and the matcher map holds, for every pattern, exactly the matcher
\* compiled from that pattern's own expression.
C10_OneMatcherPerPattern ==
    pc \in {"ready", "detected"} =>
        /\ \A p, q \in 1..Len(patterns) : patterns[p].name = patterns[q].name => p = q
        /\ DOMAIN compiled_patterns = {patterns[p].name : p \in 1..Len(patterns)}
        /\ \A p \in 1..Len(patterns) :
               compiled_patterns[patterns[p].name] = ReCompile(patterns[p].pattern)

---------------------------------------------------------------------------
\* The report specification: one ReportGenerator, fed by add_results.

InitReport ==
    /\ InitWith({Source("doc", <<>>)})

\* report_gen.add_results(batch, file_path).
AddResults(batch, file_path) ==
    /\ pc \in {"start", "report", "summarized", "saved"}
    /\ Len(calls) < MaxIngest
    /\ LET r == add_results(gen_results, scanned_files, batch, file_path) IN
       /\ gen_results' = r.results
       /\ scanned_files' = r.scanned_files
    /\ calls' = Append(calls, [batch |-> batch, file_path |-> file_path])
    /\ pc' = "report"
    /\ summary' = None
    /\ written' = None
    /\ UNCHANGED <<source, exc, loaded, patterns, compiled_patterns, text,
                   context_chars, results, file, ret, cliVars, s3Vars, logVars>>

\* summary = report_gen.generate_summary().
GenerateSummary ==
    /\ pc \in {"start", "report", "scanned", "ingested", "scan_done"}
    /\ summary' = Some(generate_summary(gen_results, scanned_files))
    /\ pc' = "summarized"
    /\ UNCHANGED <<source, exc, loaded, patterns, compiled_patterns, text,
                   context_chars, results, gen_results, scanned_files, calls, file, ret,
                   written, cliVars, s3Vars, logVars>>

\* report_gen.save_csv(output_path): the file holds the rows of this call.
SaveCsv ==
    /\ pc \in {"start", "report"}
    /\ written' = Some(save_csv(gen_results))
    /\ pc' = "saved"
    /\ UNCHANGED <<source, exc, loaded, patterns, compiled_patterns, text,
                   context_chars, results, gen_results, scanned_files, summary, calls,
                   file, ret, cliVars, s3Vars, logVars>>

NextReport ==
    \/ \E batch \in Batches, file_path \in FilePaths : AddResults(batch, file_path)
    \/ GenerateSummary
    \/ SaveCsv

SpecReport == InitReport /\ [][NextReport]_vars

\* The sum of the values of a dict of counts.
RECURSIVE SumOver(_, _)
SumOver(d, keys) ==
    IF keys = {} THEN 0
    ELSE LET k == CHOOSE x \in keys : TRUE IN d[k] + SumOver(d, keys \ {k})

SumValues(d) == SumOver(d, DOMAIN d)

BatchSizes == [k \in 1..Len(calls) |-> Len(calls[k].batch)]

\* C3: a summary reports as total_detections the sum of the sizes of the
\* batches ingested so far, both count breakdowns sum to it, and after
\* ingest(findings, A), ingest(findings2, B) with two sources A, B it reports
\* total_files = 2.
C3_SummaryTotals ==
    pc = "summarized" =>
        /\ summary[1].total_detections = SumSeq(BatchSizes)
        /\ SumValues(summary[1].risk_level_counts) = summary[1].total_detections
        /\ SumValues(summary[1].pattern_counts) = summary[1].total_detections
        /\ (/\ Len(calls) = 2
            /\ Truthy(calls[1].file_path) /\ Truthy(calls[2].file_path)
            /\ calls[1].file_path # calls[2].file_path)
           => summary[1].total_files = 2

\* C3's case: a summary taken after two non-empty batches of two sources, one
\* batch repeating a finding of the other.
C3_Witness ==
    /\ pc = "summarized"
    /\ Len(calls) = 2
    /\ calls[1].batch # <<>> /\ calls[1].batch = calls[2].batch
    /\ Truthy(calls[1].file_path) /\ Truthy(calls[2].file_path)
    /\ calls[1].file_path # calls[2].file_path
    /\ summary[1].total_detections = 2

\* C4: total_files is the number of distinct source references passed to
\* add_results (a source passed twice counts once, one passed with no
\* findings counts).
C4_DistinctSources ==
    pc = "summarized" =>
        summary[1].total_files =
            Cardinality({calls[k].file_path : k \in {i \in 1..Len(calls) : Truthy(calls[i].file_path)}})

\* C5: every result without file_path is in the 'unknown' group, and no result
\* that carries a file_path shares a group with one that carries none.
C5_UnknownGroupApart ==
    LET grouped == group_by_file(gen_results) IN
    /\ \A k \in 1..Len(gen_results) :
           ~Truthy(gen_results[k].file_path) =>
               /\ UnknownPath \in DOMAIN grouped
               /\ \E i \in 1..Len(grouped[UnknownPath]) : grouped[UnknownPath][i] = gen_results[k]
    /\ \A key \in DOMAIN grouped : \A i, j \in 1..Len(grouped[key]) :
           Truthy(grouped[key][i].file_path) = Truthy(grouped[key][j].file_path)

---------------------------------------------------------------------------
\* Properties of pattern loading (specification SpecLoad).

\* Every record of every group has its name and its expression and stands
\* under a key that names a RiskLevel.
RecordsWellFormed(src) ==
    /\ src.kind = "doc"
    /\ \A g \in 1..Len(src.groups) : \A i \in 1..Len(src.groups[g].list) :
           /\ "name" \in DOMAIN src.groups[g].list[i]
           /\ "pattern" \in DOMAIN src.groups[g].list[i]
           /\ src.groups[g].key \in RiskLevel

\* Every group key names a RiskLevel.
KeysValid(src) ==
    src.kind = "doc" /\ \A g \in 1..Len(src.groups) : src.groups[g].key \in RiskLevel

\* The records in the groups before group g.
RecordsBefore(src, g) == SumSeq([h \in 1..(g - 1) |-> Len(src.groups[h].list)])
RecordCount(src) == RecordsBefore(src, Len(src.groups) + 1)

\* ps is the declared content of src: record i of group g stands at position
\* RecordsBefore(src, g) + i with the risk level of its group and its
\* description, the empty string when the record has none.
IsDeclared(ps, src) ==
    /\ Len(ps) = RecordCount(src)
    /\ \A g \in 1..Len(src.groups) : \A i \in 1..Len(src.groups[g].list) :
           LET rec == src.groups[g].list[i]
               pat == ps[RecordsBefore(src, g) + i]
           IN  /\ pat.name = rec["name"]
               /\ pat.pattern = rec["pattern"]
               /\ pat.risk_level = src.groups[g].key
               /\ pat.description = (IF "description" \in DOMAIN rec THEN rec["description"] ELSE "")

\* C6: a source with valid risk-level groups and N well-formed records loads
\* to exactly N patterns in declared order, each with its group's risk level
\* and with description "" where the record has none.
C6_LoadPreservesDeclaration ==
    (KeysValid(source) /\ RecordsWellFormed(source)) =>
        /\ pc \in {"loaded", "load_failed"} =>
               pc = "loaded" /\ IsDeclared(loaded[1], source)
        /\ pc = "ready" => IsDeclared(patterns, source)

\* C6's case: a file declaring LOW before HIGH, one record without description,
\* has been loaded.
C6_Witness ==
    /\ pc = "loaded"
    /\ Len(source.groups) = 2
    /\ source.groups[1].key = "LOW" /\ source.groups[2].key = "HIGH"
    /\ source.groups[1].list = <<RecB>> /\ source.groups[2].list = <<RecA>>
    /\ Len(loaded[1]) = 2

\* The expressions re.compile rejects.
Uncompilable == {"("}

HasBadExpr(src) ==
    /\ src.kind = "doc"
    /\ \E g \in 1..Len(src.groups) : \E i \in 1..Len(src.groups[g].list) :
           /\ "pattern" \in DOMAIN src.groups[g].list[i]
           /\ src.groups[g].list[i]["pattern"] \in Uncompilable

\* C7 as stated: on a source with an unparsable expression every load fails and
\* no caller obtains a pattern list or a matcher map.
C7_NoPartialSet ==
    (HasBadExpr(source) /\ pc # "start") =>
        /\ exc # "none"
        /\ loaded = None /\ patterns = <<>> /\ compiled_patterns = EmptyDict

\* C7 as amended: on such a source the detector's constructor fails (with
\* re.error when the records are well formed) and no detector, pattern list or
\* matcher map is obtained from it; PatternLoader.load_patterns compiles
\* nothing and, the records being well formed, returns every declared
\* pattern, the unparsable one among them.
C7_ConstructorFailsFast ==
    HasBadExpr(source) =>
        /\ pc \notin {"ready", "detected"}
        /\ patterns = <<>> /\ compiled_patterns = EmptyDict
        /\ (pc = "init_failed" /\ RecordsWellFormed(source)) => exc = "re.error"
        /\ (pc = "init_failed" /\ ~RecordsWellFormed(source)) => exc = "KeyError"
        /\ (pc \in {"loaded", "load_failed"} /\ RecordsWellFormed(source)) =>
               /\ pc = "loaded"
               /\ IsDeclared(loaded[1], source)
               /\ \E k \in 1..Len(loaded[1]) : loaded[1][k].pattern \in Uncompilable

\* C7's case: the constructor has been run on well-formed records of which a
\* later one does not compile.
C7_Witness ==
    /\ HasBadExpr(source) /\ RecordsWellFormed(source)
    /\ RecordCount(source) = 2
    /\ pc = "init_failed" /\ exc = "re.error"

\* The source lacks the risk-level grouping, or has a group key that is no
\* RiskLevel, or a record without name or expression.
BadFormat(src) ==
    \/ src.kind = "nogroup"
    \/ src.kind = "doc" /\ ~KeysValid(src)
    \/ src.kind = "doc" /\ \E g \in 1..Len(src.groups) : \E i \in 1..Len(src.groups[g].list) :
           "name" \notin DOMAIN src.groups[g].list[i]
               \/ "pattern" \notin DOMAIN src.groups[g].list[i]

\* C8: on a source of bad format every load fails with the format error
\* (KeyError) and returns no patterns.
C8_BadFormatFails ==
    (BadFormat(source) /\ pc # "start") =>
        /\ pc \in {"load_failed", "init_failed"}
        /\ exc = "KeyError"
        /\ loaded = None /\ patterns = <<>>

\* C9: loading a path that does not exist fails with FileNotFoundError, loading
\* a file that is not JSON fails with JSONDecodeError, and neither returns
\* patterns.
C9_MissingOrMalformed ==
    /\ (source.kind = "missing" /\ pc # "start") =>
           /\ pc \in {"load_failed", "init_failed"}
           /\ exc = "FileNotFoundError"
           /\ loaded = None /\ patterns = <<>> /\ compiled_patterns = EmptyDict
    /\ (source.kind = "malformed" /\ pc # "start") =>
           /\ pc \in {"load_failed", "init_failed"}
           /\ exc = "JSONDecodeError"
           /\ loaded = None /\ patterns = <<>> /\ compiled_patterns = EmptyDict

\* C9's case: load_patterns has been called on a file that is not JSON.
C9_Witness ==
    source.kind = "malformed" /\ pc = "load_failed" /\ exc = "JSONDecodeError"

---------------------------------------------------------------------------
\* Further properties of the detection engine (specification Spec).

\* C11: the context of every finding is the part of its line from
\* max(0, start_pos - context_chars) to min(len(line), end_pos + context_chars),
\* the matched text lies in it at offset start_pos - context start, and it holds
\* no newline.
C11_ContextWindow ==
    pc = "detected" =>
        LET lines == SplitLines(text) IN
        \A k \in 1..Len(results) :
            LET f == results[k]
                line == lines[f.line_number]
                lo == IF f.start_pos - context_chars > 0
                      THEN f.start_pos - context_chars ELSE 0
                hi == IF f.end_pos + context_chars < Len(line)
                      THEN f.end_pos + context_chars ELSE Len(line)
            IN  /\ Len(f.context) = hi - lo
                /\ \A i \in 1..(hi - lo) : f.context[i] = line[lo + i]
                /\ Len(f.matched_text) = f.end_pos - f.start_pos
                /\ \A i \in 1..(f.end_pos - f.start_pos) :
                       f.matched_text[i] = f.context[(f.start_pos - lo) + i]
                /\ \A i \in 1..Len(f.context) : f.context[i] # "\n"

\* C11's case: with a window of one character, a text of two lines has a
\* finding whose window is cut at the start of its line, one whose window is
\* cut at the end of its line and one with a character of context on each side.
C11_Witness ==
    /\ pc = "detected"
    /\ context_chars = 1
    /\ Len(SplitLines(text)) = 2
    /\ \E k \in 1..Len(results) :
           results[k].start_pos = 0 /\ Len(results[k].context) = Len(results[k].matched_text) + 1
    /\ \E k \in 1..Len(results) :
           /\ results[k].start_pos > 0
           /\ results[k].end_pos = Len(SplitLines(text)[results[k].line_number])
    /\ \E k \in 1..Len(results) :
           /\ results[k].matched_text # <<>>
           /\ Len(results[k].context) = Len(results[k].matched_text) + 2

\* The segments of s between its newline characters, empty ones included.
RECURSIVE NewlineSegmentsFrom(_, _)
NewlineSegmentsFrom(cur, s) ==
    IF s = <<>> THEN <<cur>>
    ELSE IF Head(s) = "\n" THEN <<cur>> \o NewlineSegmentsFrom(<<>>, Tail(s))
    ELSE NewlineSegmentsFrom(Append(cur, Head(s)), Tail(s))

NewlineSegments(s) == NewlineSegmentsFrom(<<>>, s)

\* C12: line_number is the 1-based index of the newline-delimited segment of
\* the text that holds the match: the matched text is that segment's part
\* [start_pos, end_pos).
C12_LineIsNewlineSegment ==
    pc = "detected" =>
        LET segments == NewlineSegments(text) IN
        \A k \in 1..Len(results) :
            LET f == results[k] IN
            /\ f.line_number \in 1..Len(segments)
            /\ f.end_pos <= Len(segments[f.line_number])
            /\ f.matched_text = Slice(segments[f.line_number], f.start_pos, f.end_pos)

\* The findings of line n that carry the name and the risk level of pat, as
\* spans, in the order of the result list.
RECURSIVE SpansOfPattern(_, _, _)
SpansOfPattern(rs, n, pat) ==
    IF rs = <<>> THEN <<>>
    ELSE (IF /\ Head(rs).line_number = n
             /\ Head(rs).pattern_name = pat.name
             /\ Head(rs).risk_level = pat.risk_level
          THEN <<<<Head(rs).start_pos, Head(rs).end_pos>>>> ELSE <<>>)
         \o SpansOfPattern(Tail(rs), n, pat)

\* C13: on every line the findings of one pattern are matches of that
\* pattern's expression, do not overlap, and each is the leftmost match not
\* before the end of the one before it (after an empty match the scan does not
\* report the same empty match again).
C13_LeftmostNonOverlapping ==
    pc = "detected" =>
        LET lines == SplitLines(text) IN
        \A n \in 1..Len(lines), p \in 1..Len(patterns) :
            LET line == lines[n]
                re == ReCompile(patterns[p].pattern)
                sp == SpansOfPattern(results, n, patterns[p])
            IN  \A i \in 1..Len(sp) :
                    LET from == IF i = 1 THEN 0 ELSE sp[i - 1][2] IN
                    /\ InLang(re, Slice(line, sp[i][1], sp[i][2]))
                    /\ from <= sp[i][1]
                    /\ i > 1 => sp[i - 1] # sp[i]
                    /\ \A a \in from..(sp[i][1] - 1), b \in 0..Len(line) :
                           (a <= b /\ InLang(re, Slice(line, a, b)))
                               => (i > 1 /\ a = from /\ b = a /\ sp[i - 1][1] = sp[i - 1][2])

\* C15: the findings the result list holds for a pattern are the findings
\* detect returns when that pattern is the whole set (no other pattern of the
\* set adds to them or takes from them, on whichever lines they are), and
\* the generator's result list is the batches of all add_results calls, one
\* after the other.
C15_NothingSuppressed ==
    /\ pc = "detected" =>
           \A p \in 1..Len(patterns) :
               LET pat == patterns[p] IN
               SelectSeq(results, LAMBDA f : f.pattern_name = pat.name
                                              /\ f.risk_level = pat.risk_level)
                   = detect(<<pat>>, DictSet(EmptyDict, pat.name, ReCompile(pat.pattern)),
                            text, context_chars)
    /\ pc \in {"report", "summarized"} =>
           /\ Len(gen_results) = SumSeq(BatchSizes)
           /\ \A k \in 1..Len(calls) : \A i \in 1..Len(calls[k].batch) :
                  gen_results[SumSeq(SubSeq(BatchSizes, 1, k - 1)) + i] = calls[k].batch[i]

---------------------------------------------------------------------------
\* The scan specification: one file, handed to the FileHandler, to the
\* scanner's admission check, or scanned by a detector as cli.scan_files does
\* (detect_file, add_results when there are results, generate_summary).

InitScan ==
    /\ source \in ScanSources
    /\ file \in Files
    /\ pc = "start"
    /\ exc = "none"
    /\ loaded = None
    /\ patterns = <<>>
    /\ compiled_patterns = EmptyDict
    /\ text = <<>>
    /\ context_chars = 0
    /\ results = <<>>
    /\ gen_results = <<>>
    /\ scanned_files = <<>>
    /\ summary = None
    /\ calls = <<>>
    /\ ret = Return(None)
    /\ NoCsv /\ NoScanFiles /\ NoS3 /\ NoLogging

\* file_type = FileHandler.get_file_type(file).
GetFileType ==
    /\ pc = "start"
    /\ ret' = get_file_type(file)
    /\ exc' = ret'.exc
    /\ pc' = "typed"
    /\ UNCHANGED <<source, loaded, patterns, compiled_patterns, text, context_chars,
                   results, gen_results, scanned_files, summary, calls, file,
                   written, cliVars, s3Vars, logVars>>

\* text = FileHandler.extract_text(file).
ExtractText ==
    /\ pc = "start"
    /\ ret' = extract_text(file)
    /\ exc' = ret'.exc
    /\ pc' = "extracted"
    /\ UNCHANGED <<source, loaded, patterns, compiled_patterns, text, context_chars,
                   results, gen_results, scanned_files, summary, calls, file,
                   written, cliVars, s3Vars, logVars>>

\* FileScanner()._is_supported_file(file), which returns in every case.
IsSupportedFile ==
    /\ pc = "start"
    /\ ret' = Return(is_supported_file(file, SupportedTypes))
    /\ exc' = "none"
    /\ pc' = "admission"
    /\ UNCHANGED <<source, loaded, patterns, compiled_patterns, text, context_chars,
                   results, gen_results, scanned_files, summary, calls, file,
                   written, cliVars, s3Vars, logVars>>

\* results = detector.detect_file(str(file)); text and context_chars are the
\* arguments of the detect call it makes, if it makes one.
DetectFile ==
    /\ pc = "ready"
    /\ LET r == detect_file(patterns, compiled_patterns, file)
           m == magic_from_file(file)
           t == detect_file_text(file, m.value)
           read == r.exc = "none" /\ t.exc = "none"
       IN  /\ ret' = r
           /\ exc' = r.exc
           /\ pc' = IF r.exc = "none" THEN "scanned" ELSE "scan_failed"
           /\ results' = IF r.exc = "none" THEN r.value ELSE results
           /\ text' = IF read THEN t.value ELSE text
           /\ context_chars' = IF read THEN DefaultContextChars ELSE context_chars
    /\ UNCHANGED <<source, loaded, patterns, compiled_patterns, gen_results,
                   scanned_files, summary, calls, file,
                   written, cliVars, s3Vars, logVars>>

\* "if results: report_gen.add_results(results, file)".
ScanIngest ==
    /\ pc = "scanned"
    /\ results # <<>>
    /\ LET r == add_results(gen_results, scanned_files, results, Some(file.path)) IN
       /\ gen_results' = r.results
       /\ scanned_files' = r.scanned_files
    /\ calls' = Append(calls, [batch |-> results, file_path |-> Some(file.path)])
    /\ pc' = "ingested"
    /\ summary' = None
    /\ UNCHANGED <<source, exc, loaded, patterns, compiled_patterns, text,
                   context_chars, results, file, ret,
                   written, cliVars, s3Vars, logVars>>

NextScan ==
    \/ GetFileType
    \/ ExtractText
    \/ IsSupportedFile
    \/ NewDetector
    \/ DetectFile
    \/ ScanIngest
    \/ GenerateSummary

SpecScan == InitScan /\ [][NextScan]_vars

---------------------------------------------------------------------------
\* Properties of the scan of a file (specification SpecScan).

\* The position in ps of the pattern whose loop pass appended each finding of
\* one line, from pattern index k on.
RECURSIVE ProducersOnLine(_, _, _, _)
ProducersOnLine(ps, compiled, k, line) ==
    IF k > Len(ps) THEN <<>>
    ELSE [i \in 1..Len(FindIter(compiled[ps[k].name], line)) |-> k]
         \o ProducersOnLine(ps, compiled, k + 1, line)

\* The same for every finding of a detect call, in the order of its result list.
RECURSIVE Producers(_, _, _, _)
Producers(ps, compiled, lines, n) ==
    IF n > Len(lines) THEN <<>>
    ELSE ProducersOnLine(ps, compiled, 1, lines[n])
         \o Producers(ps, compiled, lines, n + 1)

\* The number of results of risk level r.
CountRisk(rs, r) == Cardinality({k \in 1..Len(rs) : rs[k].risk_level = r})

\* C14: every finding carries the name and the risk level of the pattern of
\* the loaded set whose pass over the line produced it; the generator holds
\* the findings with the risk levels they were handed over with, the summary
\* counts them by those, the grouping files them unchanged and the CSV rows
\* show them.
C14_RiskLevelCopied ==
    /\ pc \in {"detected", "scanned", "ingested", "summarized"} =>
           LET by == Producers(patterns, compiled_patterns, SplitLines(text), 1) IN
           /\ Len(by) = Len(results)
           /\ \A k \in 1..Len(results) :
                  /\ results[k].risk_level = patterns[by[k]].risk_level
                  /\ results[k].pattern_name = patterns[by[k]].name
    /\ pc \in {"ingested", "summarized"} =>
           LET grouped == group_by_file(gen_results)
               rows == save_csv(gen_results)
           IN  /\ Len(gen_results) = SumSeq(BatchSizes)
               /\ \A c \in 1..Len(calls) : \A i \in 1..Len(calls[c].batch) :
                      gen_results[SumSeq(SubSeq(BatchSizes, 1, c - 1)) + i].risk_level
                          = calls[c].batch[i].risk_level
               /\ \A k \in 1..Len(gen_results) :
                      LET f == gen_results[k] IN
                      /\ \E i \in 1..Len(grouped[KeyOf(f)]) : grouped[KeyOf(f)][i] = f
                      /\ \E j \in 2..Len(rows) :
                             rows[j] = <<KeyOf(f), f.pattern_name, f.matched_text,
                                         f.risk_level, f.line_number, f.start_pos,
                                         f.end_pos, f.context>>
               /\ Len(rows) = 1 + Len(gen_results)
    /\ pc = "summarized" =>
           \A r \in RiskLevel :
               Get(summary[1].risk_level_counts, r, 0) = CountRisk(gen_results, r)

\* C14's case: a file was scanned, its findings, of two risk levels, were
\* handed to the generator and summarized.
C14_Witness ==
    /\ pc = "summarized"
    /\ Len(calls) = 1
    /\ calls[1].batch = results
    /\ \E i, j \in 1..Len(gen_results) :
           gen_results[i].risk_level = "HIGH" /\ gen_results[j].risk_level = "LOW"

\* C16: no exception leaves extract_text or detect_file, whatever the file.
C16_ExtractNeverRaises ==
    pc \in {"extracted", "scanned", "scan_failed"} => exc = "none"

\* f's detected type is outside the supported ones.
Unsupported(f) == get_file_type(f) = Return("unknown")

\* f's detected type is a supported one and its extraction fails.
SupportedFailure(f) ==
    /\ get_file_type(f).exc = "none"
    /\ get_file_type(f).value # "unknown"
    /\ extract_text(f) = Return(None)

\* C17: what extract_text returns for a file of an unsupported type differs
\* from what it returns for a file of a supported type that fails to parse,
\* and detect_file reads no text from such a file and reports nothing for it.
C17_UnsupportedSetApart ==
    Unsupported(file) =>
        /\ pc = "extracted" =>
               \A g \in Files : SupportedFailure(g) => extract_text(g) # ret
        /\ pc = "scanned" => results = <<>> /\ text = <<>>

\* C18: extract_text of an empty plain-text file returns the empty string.
C18_EmptyTextFile ==
    (pc = "extracted" /\ file.content = TextBytes(<<>>)) => ret = Return(Some(<<>>))

\* f is named .docx (in any case) and sniffed as a generic ZIP container.
ZipNamedDocx(f) ==
    /\ Lower(suffix(f.path)) = ".docx"
    /\ magic_from_file(f) = Return("application/zip")

\* C19: a file named .docx and sniffed as a ZIP container is typed DOCX by the
\* classifier, extracted by the DOCX extractor (its text, or None when the
\* document does not parse), scanned by detect_file as that document and
\* admitted by the scanner.
C19_DocxBeforeZip ==
    ZipNamedDocx(file) =>
        LET doc == extract_from_docx(file) IN
        /\ pc = "typed" => ret = Return("docx")
        /\ pc = "extracted" =>
               ret = IF doc.exc = "none" THEN Return(Some(doc.value)) ELSE Return(None)
        /\ pc = "scanned" =>
               results = IF doc.exc # "none" THEN <<>>
                         ELSE SetFilePath(detect(patterns, compiled_patterns, doc.value,
                                                 DefaultContextChars), file.path)
        /\ pc = "admission" => ret = Return(TRUE)

\* C19's case: a Word document named a.DOCX, sniffed as application/zip, was
\* scanned and findings were reported from its text.
C19_Witness ==
    /\ pc = "scanned"
    /\ ZipNamedDocx(file)
    /\ file.path = "a.DOCX"
    /\ file.content.t = "docx"
    /\ results # <<>>

\* a is a part of b.
IsPart(a, b) == \E i \in 0..(Len(b) - Len(a)) : SubSeq(b, i + 1, i + Len(a)) = a

\* C20: the text extracted from a PDF is its page texts in page order joined
\* by a newline (the empty string for a page without text), and every
\* finding of a scanned PDF has its matched text inside one page.
C20_PdfPagesApart ==
    file.content.t = "pdf" =>
        LET pages == [k \in 1..Len(file.content.pages) |-> PageText(file.content.pages[k])] IN
        /\ pc = "extracted" => ret = Return(Some(Join(<<"\n">>, pages)))
        /\ pc = "scanned" =>
               \A k \in 1..Len(results) :
                   results[k].matched_text # <<>> =>
                       \E q \in 1..Len(pages) : IsPart(results[k].matched_text, pages[q])

---------------------------------------------------------------------------
\* Properties of the report aggregator under any sequence of calls
\* (specification SpecReport).

\* The generator after the given add_results calls, made on a new generator.
RECURSIVE IngestAll(_, _)
IngestAll(cs, gen) ==
    IF cs = <<>> THEN gen
    ELSE IngestAll(Tail(cs),
                   add_results(gen.results, gen.scanned_files, Head(cs).batch,
                               Head(cs).file_path))

SummaryAfter(cs) ==
    LET gen == IngestAll(cs, [results |-> <<>>, scanned_files |-> <<>>]) IN
    generate_summary(gen.results, gen.scanned_files)

\* Two dicts of counts added key by key.
MergeCounts(c, d) ==
    [key \in DOMAIN c \cup DOMAIN d |-> Get(c, key, 0) + Get(d, key, 0)]

\* The orders in which n calls can be made.
Orders(n) == {o \in [1..n -> 1..n] : \A i, j \in 1..n : o[i] = o[j] => i = j}

\* The calls of aggregator a when call k goes to aggregator assign[k].
CallsOf(a, assign) ==
    LET picked == SelectSeq([k \in 1..Len(calls) |-> k], LAMBDA k : assign[k] = a) IN
    [i \in 1..Len(picked) |-> calls[picked[i]]]

\* The calls made in the order o.
Reordered(o) == [i \in 1..Len(calls) |-> calls[o[i]]]

\* The counts a summary holds.
CountsOf(sm) == <<sm.total_detections, sm.risk_level_counts, sm.pattern_counts>>

\* C23: for every split of the batches between two aggregators, the two
\* summaries' total_detections added up and their risk_level_counts and
\* pattern_counts added key by key are the counts of the summary of the one
\* aggregator that ingested all the batches, and the counts of a summary are
\* those of a summary after the same ingest calls made in any other order
\* (of the calls of the one aggregator here, of the calls of each of the two
\* in the state where these are the calls made).
C23_SummariesMerge ==
    pc = "summarized" =>
        /\ \A assign \in [1..Len(calls) -> {1, 2}] :
               LET s1 == SummaryAfter(CallsOf(1, assign))
                   s2 == SummaryAfter(CallsOf(2, assign))
               IN  CountsOf(summary[1])
                       = <<s1.total_detections + s2.total_detections,
                           MergeCounts(s1.risk_level_counts, s2.risk_level_counts),
                           MergeCounts(s1.pattern_counts, s2.pattern_counts)>>
        /\ \A o \in Orders(Len(calls)) :
               CountsOf(SummaryAfter(Reordered(o))) = CountsOf(summary[1])

\* C23's case: a summary over two batches that hold the same pattern and risk
\* level, so that a split puts one count of the key in each aggregator.
C23_Witness ==
    /\ pc = "summarized"
    /\ Len(calls) = 2
    /\ calls[1].batch # <<>> /\ calls[2].batch # <<>>
    /\ calls[1].batch[1].pattern_name = calls[2].batch[1].pattern_name
    /\ summary[1].pattern_counts[calls[1].batch[1].pattern_name] = 2

\* The sources of the calls made so far, in call order.
RECURSIVE SourcesOf(_)
SourcesOf(cs) ==
    IF cs = <<>> THEN <<>>
    ELSE (IF Truthy(Head(cs).file_path) THEN <<Head(cs).file_path[1]>> ELSE <<>>)
         \o SourcesOf(Tail(cs))

RowOf(r) ==
    <<IF Truthy(r.file_path) THEN r.file_path[1] ELSE "unknown", r.pattern_name,
      r.matched_text, r.risk_level, r.line_number, r.start_pos, r.end_pos, r.context>>

Occurrences(seq, v) == Cardinality({k \in 1..Len(seq) : seq[k] = v})

IngestKey(file_path) == IF Truthy(file_path) THEN file_path[1] ELSE UnknownPath

\* C27: the groups hold every result once, each result under the file_path
\* of the add_results call that ingested it ('unknown' when the call had
\* none), and every key but 'unknown' is a registered file.
C27_GroupedAsIngested ==
    LET grouped == group_by_file(gen_results) IN
    /\ SumOver([key \in DOMAIN grouped |-> Len(grouped[key])], DOMAIN grouped)
           = Len(gen_results)
    /\ \A k \in 1..Len(calls) : \A i \in 1..Len(calls[k].batch) :
           LET key == IngestKey(calls[k].file_path) IN
           /\ key \in DOMAIN grouped
           /\ \E j \in 1..Len(grouped[key]) : grouped[key][j] = calls[k].batch[i]
    /\ \A key \in DOMAIN grouped \ {UnknownPath} :
           \E n \in 1..Len(scanned_files) : scanned_files[n] = key

---------------------------------------------------------------------------
\* The scan driver specification: cli.scan_files(path, pattern_file) step by
\* step (detector, enumeration, the loop over the files, return), the summary
\* main prints after it, and a direct scan_directory call on a FileScanner
\* constructed with a set of supported types.

\* The files that can stand under the scanned path: one with PII, one
\* without, files of types the scanner does not support, files that cannot
\* be read or parsed.
CliFiles ==
    {File("a.txt", "text/plain", TextBytes(<<"a">>)),
     File("a.txt", "application/json", TextBytes(<<"a">>)),
     File("a.txt", "none", Unreadable),
     File("b.txt", "text/plain", TextBytes(<<"b">>)),
     File("b.txt", "application/pdf", Binary),
     File("b.txt", "image/png", Binary),
     File("a.docx", "application/zip", Binary),
     File("a.docx", "text/plain", TextBytes(<<"a">>)),
     File("a.docx", DocxMime, DocxDoc(<<<<"a">>>>, <<>>))}

\* The listings of a directory: files of pairwise different paths.
Listings ==
    {fs \in SeqsUpTo(CliFiles, MaxFiles) :
        \A i, j \in 1..Len(fs) : fs[i].path = fs[j].path => i = j}

Targets ==
    {Target("missing", <<>>)}
    \cup {Target("file", <<f>>) : f \in CliFiles}
    \cup {Target("dir", fs) : fs \in Listings}

\* The supported_types a FileScanner is constructed with.
ConfiguredTypes ==
    {None, Some({}), Some({"text/plain"}), Some({"application/pdf", "application/xml"})}

\* The pattern files of the scan driver specification.
CliSources ==
    {Source("doc", <<Group("HIGH", <<[name |-> "X", pattern |-> "a"]>>),
                     Group("LOW", <<[name |-> "Y", pattern |-> "ab?"]>>)>>),
     Source("doc", <<Group("MEDIUM", <<[name |-> "X", pattern |-> "a"],
                                       [name |-> "Z", pattern |-> "("]>>)>>),
     Source("missing", <<>>),
     Source("malformed", <<>>)}

InitCli ==
    /\ source \in CliSources
    /\ target \in Targets
    /\ scanner \in {FileScanner_init(c) : c \in ConfiguredTypes}
    /\ pc = "start"
    /\ exc = "none"
    /\ loaded = None
    /\ patterns = <<>>
    /\ compiled_patterns = EmptyDict
    /\ text = <<>>
    /\ context_chars = 0
    /\ results = <<>>
    /\ gen_results = <<>>
    /\ scanned_files = <<>>
    /\ summary = None
    /\ calls = <<>>
    /\ file = NoFile
    /\ ret = Return(None)
    /\ scan_list = <<>> /\ done = 0 /\ touched = {}
    /\ NoCsv /\ NoS3 /\ NoLogging

\* "if target_path.is_file(): files = [target_path]
\*  else: files = list(scanner.scan_directory(path))", scanner = FileScanner().
Enumerate ==
    /\ pc = "ready"
    /\ LET r == IF target.kind = "file" THEN Return(target.files)
                ELSE scan_directory(target, FileScanner_init(None).supported_types)
       IN  /\ exc' = r.exc
           /\ pc' = IF r.exc = "none" THEN "enumerated" ELSE "enum_failed"
           /\ scan_list' = IF r.exc = "none" THEN r.value ELSE scan_list
    /\ touched' = touched \cup {target.files[k] : k \in 1..Len(target.files)}
    /\ UNCHANGED <<source, loaded, patterns, compiled_patterns, text, context_chars,
                   results, gen_results, scanned_files, summary, calls, file, ret,
                   written, scanner, target, done, s3Vars, logVars>>

\* One pass of "for file in files".
ScanFile ==
    /\ pc = "enumerated"
    /\ done < Len(scan_list)
    /\ LET f == scan_list[done + 1]
           r == detect_file(patterns, compiled_patterns, f)
           g == scan_file(patterns, compiled_patterns, gen_results, scanned_files, f)
       IN  /\ file' = f
           /\ ret' = r
           /\ results' = IF r.exc = "none" THEN r.value ELSE results
           /\ exc' = g.exc
           /\ pc' = IF g.exc = "none" THEN "enumerated" ELSE "scan_failed"
           /\ gen_results' = g.results
           /\ scanned_files' = g.scanned_files
           /\ calls' = IF r.exc = "none" /\ r.value # <<>>
                       THEN Append(calls, [batch |-> r.value, file_path |-> Some(f.path)])
                       ELSE calls
           /\ touched' = touched \cup {f}
    /\ done' = done + 1
    /\ UNCHANGED <<source, loaded, patterns, compiled_patterns, text, context_chars,
                   summary, written, scanner, target, scan_list, s3Vars, logVars>>

\* "return report_gen", the loop over.
ScanReturn ==
    /\ pc = "enumerated"
    /\ done = Len(scan_list)
    /\ pc' = "scan_done"
    /\ UNCHANGED <<source, exc, loaded, patterns, compiled_patterns, text,
                   context_chars, results, gen_results, scanned_files, summary, calls,
                   file, ret, written, cliVars, s3Vars, logVars>>

\* list(scanner.scan_directory(path)) on the FileScanner the caller holds.
ScanDirectory ==
    /\ pc = "start"
    /\ ret' = scan_directory(target, scanner.supported_types)
    /\ exc' = ret'.exc
    /\ pc' = "listed"
    /\ UNCHANGED <<source, loaded, patterns, compiled_patterns, text, context_chars,
                   results, gen_results, scanned_files, summary, calls, file,
                   written, cliVars, s3Vars, logVars>>

NextCli ==
    \/ NewDetector
    \/ Enumerate
    \/ ScanFile
    \/ ScanReturn
    \/ GenerateSummary
    \/ ScanDirectory

SpecCli == InitCli /\ [][NextCli]_vars

\* detect_file's extraction or detection fails for the file.
Fails(f) ==
    LET m == magic_from_file(f) IN
    m.exc # "none" \/ detect_file_text(f, m.value).exc # "none"

\* The generator's result list after the loop of scan_files has run over fs.
RECURSIVE ScanAll(_, _)
ScanAll(fs, rs) ==
    IF fs = <<>> THEN rs
    ELSE ScanAll(Tail(fs),
                 scan_file(patterns, compiled_patterns, rs, <<>>, Head(fs)).results)

\* C21: the loop is never left by an exception, a file whose extraction or
\* detection fails adds no finding, and after every pass the findings
\* ingested are those of a scan over the same files with the failing files
\* left out.
C21_FailingFileIsolated ==
    /\ pc # "scan_failed"
    /\ pc \in {"enumerated", "scan_done"} =>
           LET scanned == SubSeq(scan_list, 1, done) IN
           /\ \A k \in 1..Len(gen_results) : \A i \in 1..done :
                  (Fails(scan_list[i]) /\ Truthy(gen_results[k].file_path))
                      => gen_results[k].file_path[1] # scan_list[i].path
           /\ gen_results = ScanAll(SelectSeq(scanned, LAMBDA f : ~Fails(f)), <<>>)
    /\ pc = "scan_done" => done = Len(scan_list)

\* C21's case: a scan of two files that is over, the first file failed and
\* the second has findings in the report.
C21_Witness ==
    /\ pc = "scan_done"
    /\ Len(scan_list) = 2
    /\ Fails(scan_list[1]) /\ ~Fails(scan_list[2])
    /\ gen_results # <<>>

\* The pattern file loads and every expression in it compiles.
LoadSucceeds(src) ==
    LET r == load_patterns(src) IN
    r.exc = "none" /\ CompileAll(r.value, EmptyDict).exc = "none"

\* C22: when the pattern file does not load, scan_files ends in the
\* constructor's exception with no file enumerated, opened or scanned, and in
\* no state has a file been touched under a pattern file that does not load.
C22_LoadErrorBeforeFiles ==
    /\ (\/ touched # {} \/ scan_list # <<>> \/ done > 0
        \/ pc \in {"ready", "enumerated", "enum_failed", "scan_done", "scan_failed"})
           => LoadSucceeds(source)
    /\ pc = "init_failed" =>
           /\ ~LoadSucceeds(source)
           /\ touched = {} /\ scan_list = <<>> /\ done = 0 /\ gen_results = <<>>

\* C22's case: the constructor failed on a directory that holds files.
C22_Witness ==
    /\ pc = "init_failed"
    /\ target.kind = "dir" /\ target.files # <<>>
    /\ touched = {}

\* C26: a directory listing made by a FileScanner holds only files whose
\* sniffed MIME type is in the supported_types the scanner was constructed
\* with (the default set when it was given none), and listing a path that
\* does not exist raises FileNotFoundError.
C26_OnlyAdmissibleTypes ==
    pc = "listed" =>
        LET admissible == IF scanner.configured = None THEN SupportedTypes
                          ELSE scanner.configured[1]
        IN  IF target.kind = "missing" THEN ret.exc = "FileNotFoundError"
            ELSE /\ ret.exc = "none"
                 /\ \A k \in 1..Len(ret.value) :
                        LET m == magic_from_file(ret.value[k]) IN
                        m.exc = "none" /\ m.value \in admissible

\* C28: the summary printed after scan_files reports as total_files the
\* number of files the loop handed to detect_file.
C28_TotalFilesScanned ==
    pc = "summarized" => summary[1].total_files = done

---------------------------------------------------------------------------
\* The S3 text parser (scan/parsers/s3/lambda_handlers): one Lambda event,
\* one object in the bucket, one extract_text call.
\*
\* An event is "valid" (Records[0].s3 names a bucket and a key),
\* "no_records" ({}), "empty_records" ({'Records': []}) or
\* "not_subscriptable" (None).  The object is absent (get_object raises
\* ClientError), bytes that do not decode, or bytes that decode to a text.

S3Event(shape, bucket, key) == [shape |-> shape, bucket |-> bucket, key |-> key]

\* event['Records'][0]['s3'] and the two lookups under it.
s3_lookup(ev) ==
    CASE ev.shape = "valid" -> Return(<<ev.bucket, ev.key>>)
      [] ev.shape = "no_records" -> Raise("KeyError")
      [] ev.shape = "empty_records" -> Raise("IndexError")
      [] OTHER -> Raise("TypeError")

\* LambdaBaseParser.get_s3_info(event): KeyError and IndexError become ValueError.
get_s3_info(ev) ==
    LET r == s3_lookup(ev) IN
    IF r.exc \in {"KeyError", "IndexError"} THEN Raise("ValueError") ELSE r

\* self.s3_client.get_object(Bucket=bucket, Key=key).
get_object(obj) == IF obj.t = "absent" THEN Raise("ClientError") ELSE Return(obj)

\* response['Body'].read().decode(encoding).
decode(body) ==
    IF body.t = "text" THEN Return(body.text) ELSE Raise("UnicodeDecodeError")

\* The handler "except Exception as e" of extract_text: its message formats
\* the locals bucket and key, which are bound only once get_s3_info returned.
s3_outer_handler(bound) == IF bound THEN Return(None) ELSE Raise("UnboundLocalError")

\* The handler "except UnicodeDecodeError" of extract_text: its message
\* formats the local e, which no statement has bound at that point.
s3_inner_handler == Raise("UnboundLocalError")

\* TextParser.extract_text(event): value is the Optional[str] returned.
TextParser_extract_text(ev, obj) ==
    LET info == get_s3_info(ev) IN
    IF info.exc # "none" THEN s3_outer_handler(FALSE)
    ELSE LET response == get_object(obj) IN
         IF response.exc # "none" THEN s3_outer_handler(TRUE)
         ELSE LET d == decode(response.value) IN
              IF d.exc = "none" THEN Return(Some(d.value))
              ELSE IF s3_inner_handler.exc = "none" THEN Return(None)
              ELSE s3_outer_handler(TRUE)

S3Events ==
    {S3Event(shape, "", "") : shape \in {"no_records", "empty_records", "not_subscriptable"}}
    \cup {S3Event("valid", "test-bucket", key) : key \in {"a.txt", "unknown"}}

S3Objects == {Absent, Binary} \cup {TextBytes(t) : t \in Texts}

InitS3 ==
    /\ source = Source("doc", <<>>)
    /\ event \in S3Events
    /\ s3_object \in S3Objects
    /\ pc = "start"
    /\ exc = "none"
    /\ loaded = None
    /\ patterns = <<>>
    /\ compiled_patterns = EmptyDict
    /\ text = <<>>
    /\ context_chars = 0
    /\ results = <<>>
    /\ gen_results = <<>>
    /\ scanned_files = <<>>
    /\ summary = None
    /\ calls = <<>>
    /\ file = NoFile
    /\ ret = Return(None)
    /\ NoCsv /\ NoScanFiles /\ NoLogging

\* text = parser.extract_text(event).
S3ExtractText ==
    /\ pc = "start"
    /\ ret' = TextParser_extract_text(event, s3_object)
    /\ exc' = ret'.exc
    /\ pc' = "s3_extracted"
    /\ UNCHANGED <<source, loaded, patterns, compiled_patterns, text, context_chars,
                   results, gen_results, scanned_files, summary, calls, file,
                   written, cliVars, s3Vars, logVars>>

NextS3 ==
    \/ S3ExtractText

SpecS3 == InitS3 /\ [][NextS3]_vars

\* C29: extract_text returns the decoded text when the event is valid, the
\* object is fetched and its body decodes, and returns None, raising nothing,
\* for an event of invalid structure, an object that cannot be fetched and a
\* body that does not decode.
C29_ExtractTextOrNone ==
    pc = "s3_extracted" =>
        /\ ret.exc = "none"
        /\ IF event.shape = "valid" /\ s3_object.t = "text"
           THEN ret.value = Some(s3_object.text)
           ELSE ret.value = None

---------------------------------------------------------------------------
\* The logger setup (utils/logger.py): the logging module's registry of
\* loggers by name, a handler being the name of its class.

LevelNames == {"CRITICAL", "ERROR", "WARNING", "INFO", "DEBUG", "NOTSET"}

\* str.upper() for the explored level names.
Upper(str) ==
    CASE str = "info" -> "INFO"
      [] str = "debug" -> "DEBUG"
      [] OTHER -> str

\* bool(log_file) of an Optional[str].
TruthyStr(log_file) == log_file # None /\ log_file[1] # ""

\* logging.getLogger(name): the registry with the logger in it, a new one
\* with no level and no handler.
getLogger(reg, name) ==
    IF name \in DOMAIN reg THEN reg
    ELSE DictSet(reg, name, [level |-> "NOTSET", handlers |-> <<>>])

\* setup_logger(name, log_level, log_file): the exception that leaves the
\* call and the registry after it.
setup_logger(reg, name, log_level, log_file) ==
    LET reg1 == getLogger(reg, name)
        logger == reg1[name]
    IN  IF Upper(log_level) \notin LevelNames
        THEN [exc |-> "AttributeError", loggers |-> reg1]
        ELSE LET console == Append(logger.handlers, "StreamHandler")
                 handlers == IF TruthyStr(log_file) THEN Append(console, "FileHandler")
                             ELSE console
             IN  [exc |-> "none",
                  loggers |-> DictSet(reg1, name, [level |-> Upper(log_level),
                                                   handlers |-> handlers])]

LoggerNames == {"test", "TextParser"}
LogLevels == {"INFO", "debug", "LOUD"}
LogFiles == {None, Some("app.log")}

InitLogger ==
    /\ InitWith({Source("doc", <<>>)})

\* logger = setup_logger(name, log_level, log_file).
SetupLogger(name, log_level, log_file) ==
    /\ pc \in {"start", "logger_set", "logger_failed"}
    /\ Len(setups) < MaxSetups
    /\ LET r == setup_logger(loggers, name, log_level, log_file) IN
       /\ loggers' = r.loggers
       /\ exc' = r.exc
       /\ pc' = IF r.exc = "none" THEN "logger_set" ELSE "logger_failed"
       /\ setups' = Append(setups, [name |-> name, log_level |-> log_level,
                                     log_file |-> log_file, exc |-> r.exc])
    /\ UNCHANGED <<source, loaded, patterns, compiled_patterns, text, context_chars,
                   results, gen_results, scanned_files, summary, calls, file, ret,
                   written, cliVars, s3Vars>>

NextLogger ==
    \/ \E name \in LoggerNames, log_level \in LogLevels, log_file \in LogFiles :
           SetupLogger(name, log_level, log_file)

SpecLogger == InitLogger /\ [][NextLogger]_vars

\* C30: a logger that was set up by calls without a log file only, all of
\* which returned, has exactly one handler, a StreamHandler.
C30_OneStreamHandler ==
    \A name \in DOMAIN loggers :
        LET mine == SelectSeq(setups, LAMBDA c : c.name = name) IN
        (\A k \in 1..Len(mine) : mine[k].log_file = None /\ mine[k].exc = "none")
            => loggers[name].handlers = <<"StreamHandler">>

====
